---- MODULE Spec2Model ----
(***************************************************************************)
(* Model of the two batch OCR drivers of the repository:                   *)
(*   gdrive_batch_ocr.py  batch_process / process_single_pdf /             *)
(*                        is_searchable_pdf                                *)
(*   batch_ocr.py         batch_ocr / ocr_single_pdf                       *)
(* A driver thread submits one task per PDF to a ThreadPoolExecutor of     *)
(* max_workers threads and consumes the futures through as_completed.      *)
(* The remote calls (download, OCR, store) are the environment: the        *)
(* variable stub gives, per document and call, the set of answers the      *)
(* call may give (a singleton is a deterministic stub).  Spec is the run    *)
(* the caller leaves alone, SpecCancel the run the caller may interrupt    *)
(* (KeyboardInterrupt in the driver thread).                               *)
(***************************************************************************)
EXTENDS Integers, Sequences, FiniteSets, Bags, TLC

\* ---------------------------------------------------------------- bounds
MaxDocs == 2        \* most PDFs in a run (SpecFive runs five)
MaxWorkers == 2     \* largest max_workers tried
MaxImages == 1      \* most images an OCR response carries

\* ------------------------------------------------------ program constants
MinChars == 50      \* "total_chars >= 50"
Seven == 7          \* the successes of the cost example
Five == 5           \* the five-descriptor scenario of the failure-isolation property

\* ---------------------------------------------------------------- inputs
Unparseable == 0 - 1   \* bytes pdfium cannot open: PdfDocument(...) raises

\* What a PDF's bytes hold: the stripped character count of its first pages,
\* or Unparseable.
PdfContents == {Unparseable, MinChars - 1, MinChars}

\* Texts of the exceptions the remote calls raise (str(e)), as word lists:
\* two samples, of which the second happens to hold the word "skipped".
PlainError == <<"timeout">>

SkippedError == <<"Request", "SKIPPED", "by", "server">>

ErrorTexts == {PlainError, SkippedError}

\* What pdfium / the file system raise inside is_searchable_pdf.
CheckErrorText == <<"Failed", "to", "load", "document">>

OK == <<"ok">>

Answers == {OK} \cup ErrorTexts

Scripts == {"gdrive", "batch"}

\* The scripts that are started on a set of PDFs: the two batch drivers and
\* check_pdf_searchable.py.
MainScripts == Scripts \cup {"check"}

VARIABLES
    script,            \* which driver runs: batch_process or batch_ocr
    max_workers,       \* ThreadPoolExecutor(max_workers=...)
    total,             \* len(pdf_files)
    pdf_chars,         \* per PDF: what its bytes hold
    stub,              \* per PDF and call: the answers the call may give
    driver,            \* position of the driver thread
    next_submit,       \* next PDF the dict comprehension submits
    work_queue,        \* executor._work_queue: submitted, not yet taken
    pc,                \* per PDF: position of its task
    temp_file,         \* /tmp/check.pdf: 0 if absent, else the PDF whose bytes it holds
    total_chars,       \* per task: is_searchable_pdf's local total_chars (-1 outside the call)
    check,             \* per task: what is_searchable_pdf did
    ocr_calls,         \* per PDF: OCR calls begun
    store_calls,       \* per PDF: store operations begun
    result,            \* per PDF: what the future holds, None while not set
    produced,          \* per PDF: number of results its task has returned
    finished,          \* as_completed: futures found finished at its start
    finished_futures,  \* as_completed: waiter.finished_futures, completion order
    progress,          \* PDFs whose progress line was printed, in print order
    success_count,
    skip_count,
    error_count,
    interrupted,       \* KeyboardInterrupt was raised in the driver thread
    summary_printed,
    api_key,           \* MISTRAL_API_KEY is set in the environment
    exit_status,       \* exit status of the process, Alive while it runs
    output_created,    \* the output directory / Drive folder has been created
    cost,              \* the cost line of the summary: << dollars, thousandths >>, NoCost if none
    images,            \* per task: images of the OCR response (0 outside the store part)
    stored             \* per task: store operations completed (0 outside the store part)

vars == << script, max_workers, total, pdf_chars, stub, driver, next_submit,
           work_queue, pc, temp_file, total_chars, check, ocr_calls,
           store_calls, result, produced, finished, finished_futures,
           progress, success_count, skip_count, error_count, interrupted,
           summary_printed, api_key, exit_status, output_created, cost,
           images, stored >>

Docs == 1..total

\* ------------------------------------------------------------ text helpers
\* str.lower() on the words the model uses.
Lower(w) ==
    CASE w = "SKIPPED" -> "skipped"
      [] w = "Request" -> "request"
      [] w = "Already" -> "already"
      [] w = "Error:" -> "error:"
      [] w = "Failed" -> "failed"
      [] w = "Drive" -> "drive"
      [] OTHER -> w

\* "skipped" in w, for a lower-cased word.
HasSkipped(w) == w \in {"skipped", "(skipped)"}

\* "skipped" in message.lower()
MentionsSkipped(message) ==
    \E i \in 1..Len(message) : HasSkipped(Lower(message[i]))


\* --------------------------------------------------------------- outcomes
\* The tuple (file_name, success, message) a task returns.
\* raised tells a future that holds an exception (future.result() re-raises it)
\* from one that holds a returned tuple.
None == [name |-> 0, success |-> FALSE, message |-> << >>, raised |-> FALSE]

\* return file_name, False, "Already searchable (skipped)"
SkippedOutcome(d) ==
    [name |-> d, success |-> FALSE,
     message |-> <<"Already", "searchable", "(skipped)">>, raised |-> FALSE]

\* return file_name, True, msg      /  return pdf_path, True, f"{len(markdown):,} chars"
SuccessOutcome(d) ==
    [name |-> d, success |-> TRUE,
     message |-> IF script = "gdrive" THEN <<"chars", "images", "Drive">>
                                      ELSE <<"chars">>,
     raised |-> FALSE]

\* return file_name, False, f"Error: {str(e)}"   /  return pdf_path, False, str(e)
FailedOutcome(d, text) ==
    [name |-> d, success |-> FALSE,
     message |-> IF script = "gdrive" THEN <<"Error:">> \o text ELSE text,
     raised |-> FALSE]

\* ------------------------------------------------------------------- Init
Stages == {"new", "queued", "check_write", "check_read", "check_unlink",
           "ocr", "store", "done"}

\* The stages in which a worker thread is executing the task.
RunningStages == {"check_write", "check_read", "check_unlink", "ocr", "store"}

Running == {d \in Docs : pc[d] \in RunningStages}

\* The environment of the runs over PDFs without pictures: every call may
\* succeed or raise, and the OCR response carries no image. Both error texts
\* are tried on the OCR call, the plain one on the other two.
AnyStub ==
    [fetch |-> {OK, PlainError}, ocr |-> Answers, store |-> {OK, PlainError},
     images |-> {0}]

\* The same with up to MaxImages images in the OCR response.
ImageStub == [AnyStub EXCEPT !.images = 0..MaxImages]

\* The deterministic stubs: every call of a PDF has one fixed answer.
FixedStubs ==
    {[fetch |-> {f}, ocr |-> {o}, store |-> {t}, images |-> {0}] :
        f \in AnyStub.fetch, o \in AnyStub.ocr, t \in AnyStub.store}

\* The stub whose calls all succeed, and the one whose OCR call raises text.
GoodStub == [fetch |-> {OK}, ocr |-> {OK}, store |-> {OK}, images |-> {0}]

OcrFailsStub(text) ==
    [fetch |-> {OK}, ocr |-> {text}, store |-> {OK}, images |-> {0}]

\* exit_status while the process runs, and cost while no cost line is printed.
Alive == 0 - 1

NoCost == << >>

\* The state of a run over n PDFs before any of them is touched.
Fresh(n) ==
    /\ total = n
    /\ next_submit = 1
    /\ work_queue = << >>
    /\ pc = [d \in 1..n |-> "new"]
    /\ temp_file = 0
    /\ total_chars = [d \in 1..n |-> 0 - 1]
    /\ check = [d \in 1..n |-> "pending"]
    /\ ocr_calls = [d \in 1..n |-> 0]
    /\ store_calls = [d \in 1..n |-> 0]
    /\ result = [d \in 1..n |-> None]
    /\ produced = [d \in 1..n |-> 0]
    /\ finished = {}
    /\ finished_futures = << >>
    /\ progress = << >>
    /\ success_count = 0
    /\ skip_count = 0
    /\ error_count = 0
    /\ interrupted = FALSE
    /\ summary_printed = FALSE
    /\ exit_status = Alive
    /\ cost = NoCost
    /\ images = [d \in 1..n |-> 0]
    /\ stored = [d \in 1..n |-> 0]

\* The state when batch_process / batch_ocr starts to submit n PDFs: the key
\* is set and the output location exists.
Entered(n) ==
    /\ Fresh(n)
    /\ driver = "submit"
    /\ api_key = TRUE
    /\ output_created = TRUE

\* batch_ocr never looks at the text layer of its PDFs, so its runs are
\* started with scanned PDFs only.
ContentsFor(s, n) ==
    IF s = "gdrive" THEN [1..n -> PdfContents]
                    ELSE {[d \in 1..n |-> MinChars - 1]}

Init ==
    /\ script \in Scripts
    /\ max_workers \in 1..MaxWorkers
    /\ \E n \in 1..MaxDocs :
          /\ Entered(n)
          /\ pdf_chars \in ContentsFor(script, n)
          /\ stub = [d \in 1..n |-> AnyStub]

\* Runs against deterministic stubs.
InitStub ==
    /\ script \in Scripts
    /\ max_workers \in 1..MaxWorkers
    /\ \E n \in 1..MaxDocs :
          /\ Entered(n)
          /\ pdf_chars \in ContentsFor(script, n)
          /\ stub \in [1..n -> FixedStubs]

\* Five scanned PDFs, of which exactly one has a failing OCR call.
InitFive ==
    /\ script \in Scripts
    /\ max_workers \in 1..MaxWorkers
    /\ Entered(Five)
    /\ pdf_chars = [d \in 1..Five |-> MinChars - 1]
    /\ \E bad \in 1..Five, text \in ErrorTexts :
          stub = [d \in 1..Five |->
                    IF d = bad THEN OcrFailsStub(text) ELSE GoodStub]

\* Runs over PDFs with pictures that pdfium can open: the OCR response may
\* carry images.
InitImages ==
    /\ script \in Scripts
    /\ max_workers \in 1..MaxWorkers
    /\ \E n \in 1..MaxDocs :
          /\ Entered(n)
          /\ pdf_chars \in {c \in ContentsFor(script, n) :
                               \A d \in 1..n : c[d] # Unparseable}
          /\ stub = [d \in 1..n |-> ImageStub]

\* How a run over n PDFs is entered: through the script's main, or, for an
\* empty list, by a direct call of batch_process (main never passes one).
Entries(s, n, key) ==
    IF s = "gdrive" /\ n = 0 /\ key THEN {"main", "submit"} ELSE {"main"}

\* The scripts started from the command line, with or without the key, over
\* any number of PDFs, none included.
InitMain ==
    /\ script \in MainScripts
    /\ max_workers \in 1..MaxWorkers
    /\ api_key \in BOOLEAN
    /\ output_created = FALSE
    /\ \E n \in 0..MaxDocs :
          /\ Fresh(n)
          /\ driver \in Entries(script, n, api_key)
          /\ pdf_chars \in ContentsFor(script, n)
          /\ stub = [d \in 1..n |-> AnyStub]

\* ------------------------------------------------------ steps of one task
inputs == << script, max_workers, total, pdf_chars, stub, api_key >>

processVars == << exit_status, output_created >>

driverVars == << driver, next_submit, finished, progress, success_count,
                 skip_count, error_count, interrupted, summary_printed,
                 exit_status, output_created, cost >>

storeVars == << images, stored >>

checkVars == << temp_file, total_chars, check >>

Goto(d, stage) ==
    /\ pc' = [pc EXCEPT ![d] = stage]
    /\ UNCHANGED << ocr_calls, store_calls, result, produced, finished_futures,
                    storeVars >>

\* markdown, images = ocr_pdf_mistral(pdf_bytes)  /  client.chat.complete(...)
BeginOcr(d) ==
    /\ pc' = [pc EXCEPT ![d] = "ocr"]
    /\ ocr_calls' = [ocr_calls EXCEPT ![d] = @ + 1]
    /\ UNCHANGED << store_calls, result, produced, finished_futures,
                    storeVars >>

\* The store part begins, with the k images of the OCR response at hand:
\* mkdir / create_drive_folder / write_text
BeginStore(d, k) ==
    /\ pc' = [pc EXCEPT ![d] = "store"]
    /\ store_calls' = [store_calls EXCEPT ![d] = @ + 1]
    /\ images' = [images EXCEPT ![d] = k]
    /\ UNCHANGED << ocr_calls, result, produced, finished_futures, stored >>

\* The task returns: the future gets its result, and as_completed's waiter,
\* once installed, is told (Future.set_result -> waiter.add_result).
Return(d, outcome) ==
    /\ pc' = [pc EXCEPT ![d] = "done"]
    /\ result' = [result EXCEPT ![d] = outcome]
    /\ produced' = [produced EXCEPT ![d] = @ + 1]
    /\ finished_futures' = IF driver = "loop" THEN Append(finished_futures, d)
                                              ELSE finished_futures
    /\ images' = [images EXCEPT ![d] = 0]
    /\ stored' = [stored EXCEPT ![d] = 0]
    /\ UNCHANGED << ocr_calls, store_calls >>

\* A pool that starts a thread for every task (the mutant of WorkerAvailable).
WorkerAvailableAlways == TRUE

\* A worker thread is free to take a task: the pool has max_workers threads.
WorkerAvailable == Cardinality(Running) < max_workers

\* What follows a successful download_file / encode_pdf.
AfterFetch(d) ==
    IF script = "gdrive" THEN Goto(d, "check_write") ELSE BeginOcr(d)

\* A task without the try/except: the exception ends the task, the future
\* holds it, and future.result() raises it in the driver (the mutant of
\* TaskException).
TaskExceptionEscapes(d, text) ==
    /\ pc' = [pc EXCEPT ![d] = "done"]
    /\ result' = [result EXCEPT ![d] =
                    [name |-> d, success |-> FALSE, message |-> text,
                     raised |-> TRUE]]
    /\ finished_futures' = IF driver = "loop" THEN Append(finished_futures, d)
                                              ELSE finished_futures
    /\ images' = [images EXCEPT ![d] = 0]
    /\ stored' = [stored EXCEPT ![d] = 0]
    /\ UNCHANGED << ocr_calls, store_calls, produced >>

\* except Exception as e: return file_name, False, f"Error: {str(e)}"
TaskException(d, text) == Return(d, FailedOutcome(d, text))

\* A worker thread takes the oldest queued task (work_queue.get) and runs it
\* up to the end of its first call, which touches nothing the tasks share:
\* pdf_bytes = download_file(service, file_id)  /  pdf_base64 = encode_pdf(pdf_path)
Take(d) ==
    /\ work_queue # << >>
    /\ d = Head(work_queue)
    /\ WorkerAvailable
    /\ work_queue' = Tail(work_queue)
    /\ \E a \in stub[d].fetch :
          IF a = OK THEN AfterFetch(d) ELSE TaskException(d, a)
    /\ UNCHANGED << inputs, driverVars, checkVars >>

\* An is_searchable_pdf without the try/except: the failure of the check
\* reaches the handler of process_single_pdf (the mutant of CheckException).
CheckExceptionPropagates(d) ==
    /\ check' = [check EXCEPT ![d] = "error"]
    /\ TaskException(d, CheckErrorText)

\* is_searchable_pdf: except Exception as e: print(...); return False
\* and process_single_pdf goes on to the OCR call.
CheckException(d) ==
    /\ check' = [check EXCEPT ![d] = "error"]
    /\ BeginOcr(d)

\* A process_single_pdf that ignores the answer of the check (the mutant of
\* CheckReturn).
CheckReturnNoSkip(d, searchable) ==
    /\ check' = [check EXCEPT ![d] = IF searchable THEN "true" ELSE "false"]
    /\ BeginOcr(d)

\* is_searchable_pdf: return total_chars >= 50, and the branch on it in
\* process_single_pdf.
CheckReturn(d, searchable) ==
    /\ check' = [check EXCEPT ![d] = IF searchable THEN "true" ELSE "false"]
    /\ IF searchable THEN Return(d, SkippedOutcome(d)) ELSE BeginOcr(d)

\* temp_path.write_bytes(pdf_bytes)
CheckWrite(d) ==
    /\ pc[d] = "check_write"
    /\ temp_file' = d
    /\ Goto(d, "check_read")
    /\ UNCHANGED << inputs, driverVars, work_queue, total_chars, check >>

\* pdf = pdfium.PdfDocument(temp_path) and the loop over the pages: reads
\* whatever /tmp/check.pdf holds now.
CheckRead(d) ==
    /\ pc[d] = "check_read"
    /\ IF temp_file = 0 \/ pdf_chars[temp_file] = Unparseable
       THEN /\ CheckException(d)
            /\ UNCHANGED << temp_file, total_chars >>
       ELSE /\ total_chars' = [total_chars EXCEPT ![d] = pdf_chars[temp_file]]
            /\ Goto(d, "check_unlink")
            /\ UNCHANGED << temp_file, check >>
    /\ UNCHANGED << inputs, driverVars, work_queue >>

\* pdf.close(); temp_path.unlink(); return total_chars >= 50
CheckUnlink(d) ==
    /\ pc[d] = "check_unlink"
    /\ IF temp_file = 0
       THEN /\ CheckException(d)
            /\ total_chars' = [total_chars EXCEPT ![d] = 0 - 1]
            /\ UNCHANGED temp_file
       ELSE /\ temp_file' = 0
            /\ CheckReturn(d, total_chars[d] >= MinChars)
            /\ total_chars' = [total_chars EXCEPT ![d] = 0 - 1]
    /\ UNCHANGED << inputs, driverVars, work_queue >>

\* The images of the OCR response of d as far as the script reads them:
\* batch_ocr takes the message content only.
ImageCounts(d) == IF script = "gdrive" THEN stub[d].images ELSE {0}

\* the OCR call returns or raises
OcrReturn(d) ==
    /\ pc[d] = "ocr"
    /\ \E a \in stub[d].ocr :
          IF a = OK THEN \E k \in ImageCounts(d) : BeginStore(d, k)
                    ELSE TaskException(d, a)
    /\ UNCHANGED << inputs, driverVars, checkVars, work_queue >>

\* The store operations of a task: the markdown (with the folder it goes to),
\* then one per image.
StoreOps(d) == 1 + images[d]

\* A task that returns success as soon as the markdown is stored (the mutant
\* of LastStore).
LastStoreIsFirst(d) == TRUE

\* The store operation now returning is the last one of the task.
LastStore(d) == stored[d] + 1 = StoreOps(d)

\* a store operation returns or raises; after the last one the task returns
StoreReturn(d) ==
    /\ pc[d] = "store"
    /\ \E a \in stub[d].store :
          IF a # OK THEN TaskException(d, a)
          ELSE IF LastStore(d) THEN Return(d, SuccessOutcome(d))
          ELSE /\ stored' = [stored EXCEPT ![d] = @ + 1]
               /\ UNCHANGED << pc, ocr_calls, store_calls, result, produced,
                               finished_futures, images >>
    /\ UNCHANGED << inputs, driverVars, checkVars, work_queue >>


\* ------------------------------------------------------------- the driver
workerVars == << work_queue, pc, temp_file, total_chars, check, ocr_calls,
                 store_calls, result, produced, images, stored >>

\* executor.submit(...) for pdf in pdf_files: one task per PDF, in list order.
Submit ==
    /\ driver = "submit"
    /\ next_submit <= total
    /\ pc' = [pc EXCEPT ![next_submit] = "queued"]
    /\ work_queue' = Append(work_queue, next_submit)
    /\ next_submit' = next_submit + 1
    /\ driver' = IF next_submit = total THEN "as_completed" ELSE "submit"
    /\ UNCHANGED << inputs, temp_file, total_chars, check, ocr_calls,
                    store_calls, result, produced, finished, finished_futures,
                    progress, success_count, skip_count, error_count,
                    interrupted, summary_printed, processVars, cost,
                    storeVars >>

\* as_completed(futures) starts: the futures already finished are set aside
\* (a set: they are yielded in no particular order) and a waiter is installed
\* on the others.
AsCompleted ==
    /\ driver = "as_completed"
    /\ finished' = {d \in Docs : pc[d] = "done"}
    /\ driver' = IF total = 0 THEN "summary" ELSE "loop"
    /\ UNCHANGED << inputs, workerVars, next_submit, finished_futures, progress,
                    success_count, skip_count, error_count, interrupted,
                    summary_printed, processVars, cost >>

\* The counter a consumed outcome goes to:
\*   if success / elif "skipped" in message.lower() / else     (batch_process)
\*   if success / else                                           (batch_ocr)
Classify(o) ==
    IF o.success THEN "success"
    ELSE IF script = "gdrive" /\ MentionsSkipped(o.message) THEN "skip"
    ELSE "error"

\* The counters with "if" in place of "elif": a skipped outcome also falls
\* into the else branch (the mutant of Count).
CountNoElif(o) ==
    /\ success_count' = success_count + (IF o.success THEN 1 ELSE 0)
    /\ skip_count' = skip_count + (IF Classify(o) = "skip" THEN 1 ELSE 0)
    /\ error_count' = error_count + (IF ~o.success THEN 1 ELSE 0)

\* success_count += 1 / skip_count += 1 / error_count += 1
Count(o) ==
    /\ success_count' = success_count + (IF Classify(o) = "success" THEN 1 ELSE 0)
    /\ skip_count' = skip_count + (IF Classify(o) = "skip" THEN 1 ELSE 0)
    /\ error_count' = error_count + (IF Classify(o) = "error" THEN 1 ELSE 0)

\* The body of the for loop for the future of d: future.result(), the progress
\* line, the counter. The loop ends when as_completed has yielded every
\* future, and the with block is left (every task is done by then).
Consume(d) ==
    /\ progress' = Append(progress, d)
    /\ IF result[d].raised
       THEN /\ driver' = "shutdown"
            /\ UNCHANGED << success_count, skip_count, error_count >>
       ELSE /\ Count(result[d])
            /\ driver' = IF Len(progress') = total THEN "summary" ELSE "loop"
    /\ UNCHANGED << inputs, workerVars, next_submit, interrupted,
                    summary_printed, processVars, cost >>

\* as_completed yields a future that was finished when it started.
YieldFinished ==
    /\ driver = "loop"
    /\ \E d \in finished :
          /\ finished' = finished \ {d}
          /\ Consume(d)
    /\ UNCHANGED finished_futures

\* An as_completed that pops the waiter's list without reversing it first: the
\* future that finished last is yielded first (the mutant of YieldCompleted).
YieldCompletedNewest ==
    /\ driver = "loop"
    /\ finished = {}
    /\ finished_futures # << >>
    /\ finished_futures' = SubSeq(finished_futures, 1, Len(finished_futures) - 1)
    /\ Consume(finished_futures[Len(finished_futures)])
    /\ UNCHANGED finished

\* as_completed yields the futures that finish later in the order they finish.
YieldCompleted ==
    /\ driver = "loop"
    /\ finished = {}
    /\ finished_futures # << >>
    /\ finished_futures' = Tail(finished_futures)
    /\ Consume(Head(finished_futures))
    /\ UNCHANGED finished

\* The price of a page in thousandths of a dollar (0.001), and the
\* thousandths in a dollar.
UnitPrice == 1

PerDollar == 1000

\* f"{cost:.3f}": the dollars before the point and the three digits after it.
Format(thousandths) == << thousandths \div PerDollar, thousandths % PerDollar >>

\* A cost that charges the skipped PDFs too (the mutant of EstimatedCost).
EstimatedCostOfAll(n) == Format((n + skip_count) * UnitPrice)

\* total_pages = success_count; cost = total_pages * 0.001, as printed.
EstimatedCost(n) == Format(n * UnitPrice)

\* A cost line printed whatever the count, as batch_ocr prints it (the mutant
\* of CostLine).
CostLineAlways == EstimatedCost(success_count)

\* The cost line: batch_ocr always prints it, batch_process only under
\* "if success_count > 0".
CostLine ==
    IF script = "gdrive" /\ success_count = 0 THEN NoCost
    ELSE EstimatedCost(success_count)

\* A summary printed only under "if success_count > 0", as the cost line of
\* batch_process is (the mutant of PrintSummary).
PrintSummaryIfSuccess ==
    /\ driver = "summary"
    /\ summary_printed' = (success_count > 0)
    /\ cost' = CostLine
    /\ exit_status' = 0
    /\ driver' = "done"
    /\ UNCHANGED << inputs, workerVars, next_submit, finished, finished_futures,
                    progress, success_count, skip_count, error_count,
                    interrupted, output_created >>

\* print(f"Results: ...") / print(f"Completed: ...") and the cost line; the
\* function returns, and so does main.
PrintSummary ==
    /\ driver = "summary"
    /\ summary_printed' = TRUE
    /\ cost' = CostLine
    /\ exit_status' = 0
    /\ driver' = "done"
    /\ UNCHANGED << inputs, workerVars, next_submit, finished, finished_futures,
                    progress, success_count, skip_count, error_count,
                    interrupted, output_created >>

\* The caller cancels: KeyboardInterrupt is raised in the driver thread inside
\* the with block, whose __exit__ then runs executor.shutdown(wait=True).
Interrupt ==
    /\ driver \in {"submit", "as_completed", "loop"}
    /\ interrupted' = TRUE
    /\ driver' = "shutdown"
    /\ UNCHANGED << inputs, workerVars, next_submit, finished, finished_futures,
                    progress, success_count, skip_count, error_count,
                    summary_printed, processVars, cost >>

\* shutdown(wait=True) returns when the worker threads have emptied the queue
\* and ended; the exception then leaves batch_process / batch_ocr.
ShutdownJoin ==
    /\ driver = "shutdown"
    /\ work_queue = << >>
    /\ Running = {}
    /\ driver' = "aborted"
    /\ UNCHANGED << inputs, workerVars, next_submit, finished, finished_futures,
                    progress, success_count, skip_count, error_count,
                    interrupted, summary_printed, processVars, cost >>

\* ------------------------------------------------------ the scripts' main
runVars == << workerVars, next_submit, finished, finished_futures, progress,
              success_count, skip_count, error_count, interrupted,
              summary_printed, cost >>

\* The process ends with the given status: sys.exit(status), a return of main
\* (status 0) or an exception nobody catches (status 1).
Exit(status) ==
    /\ driver' = "exited"
    /\ exit_status' = status

\* main of gdrive_batch_ocr.py up to the call of batch_process: the key, the
\* list of PDFs, the output folder.
GdriveMain ==
    /\ driver = "main"
    /\ script = "gdrive"
    /\ IF ~api_key THEN Exit(1) /\ UNCHANGED output_created
       ELSE IF total = 0 THEN Exit(0) /\ UNCHANGED output_created
       ELSE /\ output_created' = TRUE
            /\ driver' = "submit"
            /\ UNCHANGED exit_status
    /\ UNCHANGED << inputs, runVars >>

\* main of batch_ocr.py and batch_ocr up to the executor: the list of PDFs,
\* output_dir.mkdir, the key.
BatchOcrMain ==
    /\ driver = "main"
    /\ script = "batch"
    /\ IF total = 0 THEN Exit(0) /\ UNCHANGED output_created
       ELSE /\ output_created' = TRUE
            /\ IF ~api_key THEN Exit(1)
               ELSE driver' = "submit" /\ UNCHANGED exit_status
    /\ UNCHANGED << inputs, runVars >>

\* main of check_pdf_searchable.py: without PDFs sys.exit(1), else the loop
\* over the PDFs and the summary, which nothing here looks into.
CheckMain ==
    /\ driver = "main"
    /\ script = "check"
    /\ IF total = 0 THEN Exit(1) ELSE Exit(0)
    /\ UNCHANGED << inputs, runVars, output_created >>

\* batch_process called with an empty list: the dict comprehension submits
\* nothing.
SubmitNothing ==
    /\ driver = "submit"
    /\ total = 0
    /\ driver' = "as_completed"
    /\ UNCHANGED << inputs, runVars, processVars >>

\* ------------------------------------------------------- the specification
\* The steps of a run the caller does not interrupt.
Next ==
    \/ Submit
    \/ AsCompleted
    \/ YieldFinished
    \/ YieldCompleted
    \/ PrintSummary
    \/ \E d \in Docs : Take(d)
    \/ \E d \in Docs : CheckWrite(d)
    \/ \E d \in Docs : CheckRead(d)
    \/ \E d \in Docs : CheckUnlink(d)
    \/ \E d \in Docs : OcrReturn(d)
    \/ \E d \in Docs : StoreReturn(d)

\* The steps of a run the caller may interrupt.
NextCancel ==
    \/ Next
    \/ Interrupt
    \/ ShutdownJoin

\* The steps of a script from its start.
NextMain ==
    \/ Next
    \/ GdriveMain
    \/ BatchOcrMain
    \/ CheckMain
    \/ SubmitNothing

Spec == Init /\ [][Next]_vars

SpecMain == InitMain /\ [][NextMain]_vars

SpecCancel == Init /\ [][NextCancel]_vars

SpecStub == InitStub /\ [][Next]_vars

SpecFive == InitFive /\ [][Next]_vars

SpecImages == InitImages /\ [][Next]_vars

\* Threads are scheduled and every remote call returns or raises.
LiveSpec == Init /\ [][Next]_vars /\ WF_vars(Next)

\* ================================================================ claims
Submitted == {d \in Docs : pc[d] # "new"}

Sum == success_count + skip_count + error_count

\* The number of times d's progress line was printed.
Printed(d) == Cardinality({i \in 1..Len(progress) : progress[i] = d})

\* ---------------------------------------------------------------------
\* C1: a batch run produces exactly one outcome per submitted descriptor.
\* At no point has a task returned more than one outcome or the driver
\* consumed an outcome twice, a descriptor has an outcome exactly when its
\* task has ended, and when the run ends every descriptor of the list has
\* its outcome, consumed exactly once.
C1_OneOutcomePerDescriptor ==
    /\ \A d \in Docs :
          /\ produced[d] <= 1
          /\ Printed(d) <= 1
          /\ (produced[d] = 1) = (pc[d] = "done")
          /\ (produced[d] = 1) = (result[d] # None)
          /\ result[d] # None => result[d].name = d
    /\ driver \in {"summary", "done"} =>
          \A d \in Docs : d \in Submitted /\ produced[d] = 1 /\ Printed(d) = 1

\* A run of two or more PDFs ended with the summary, with a success and a
\* failure among the outcomes.
C1_Witness ==
    /\ driver = "done"
    /\ total >= 2
    /\ \E d, e \in Docs : result[d].success /\ ~result[e].success

\* ---------------------------------------------------------------------
\* C2: when a run completes without cancellation the counters add up to
\* len(pdf_files) (batch_ocr has no skip counter: success_count + error_count),
\* and every consumed outcome increments exactly one counter by exactly one.
OneCounterPlusOne ==
    \/ /\ success_count' = success_count + 1
       /\ UNCHANGED << skip_count, error_count >>
    \/ /\ skip_count' = skip_count + 1
       /\ script = "gdrive"
       /\ UNCHANGED << success_count, error_count >>
    \/ /\ error_count' = error_count + 1
       /\ UNCHANGED << success_count, skip_count >>

C2_CountersAddUp ==
    /\ [](driver \in {"summary", "done"} => Sum = total)
    /\ [](script = "batch" => skip_count = 0)
    /\ [][IF progress' # progress
            THEN OneCounterPlusOne
            ELSE UNCHANGED << success_count, skip_count, error_count >>]_vars

\* A Drive run ended with the summary, with a success and a skip counted.
C2_Witness ==
    /\ driver = "done"
    /\ success_count >= 1
    /\ skip_count >= 1
    /\ Sum = total

\* ---------------------------------------------------------------------
\* C3 (as claimed): a failing OCR or store call gives that descriptor a Failed
\* outcome carrying the error's description, leaves the other outcomes alone
\* and never leaves the batch run; with exactly one failing OCR call among
\* five descriptors the summary has 1 failure and 4 successes.
\* Checked under SpecFive.
FiveOutcome(d) ==
    IF stub[d].ocr = {OK} THEN SuccessOutcome(d)
    ELSE FailedOutcome(d, CHOOSE text \in stub[d].ocr : TRUE)

C3_Original ==
    /\ driver \in {"submit", "as_completed", "loop", "summary", "done"}
    /\ \A d \in Docs : pc[d] = "done" => result[d] = FiveOutcome(d)
    /\ driver = "done" =>
          /\ error_count = 1
          /\ success_count = Five - 1
          /\ skip_count = 0

\* ---------------------------------------------------------------------
\* C4 (as claimed): when the searchable-text check itself fails for a
\* descriptor, the descriptor's outcome is Failed carrying the description of
\* that failure.
C4_Original ==
    \A d \in Docs :
        check[d] = "error" /\ pc[d] = "done" =>
            result[d] = FailedOutcome(d, CheckErrorText)

\* C4 (amended): when the searchable-text check itself fails for a descriptor,
\* is_searchable_pdf answers "not searchable": the OCR call is made for the
\* descriptor, and its outcome is the Success or the Failed outcome the OCR
\* and store calls give, never Skipped and never a Failed outcome carrying the
\* failure of the check.
C4_CheckFailureGoesToOcr ==
    \A d \in Docs :
        check[d] = "error" =>
            /\ ocr_calls[d] = 1
            /\ pc[d] \in {"ocr", "store", "done"}
            /\ pc[d] = "done" =>
                  /\ result[d] # FailedOutcome(d, CheckErrorText)
                  /\ result[d] # SkippedOutcome(d)
                  /\ \/ result[d] = SuccessOutcome(d) /\ store_calls[d] = 1
                     \/ \E text \in ErrorTexts :
                           result[d] = FailedOutcome(d, text)

\* The check failed on a PDF pdfium cannot open, and the descriptor ended
\* with a Success outcome.
C4_Witness ==
    \E d \in Docs :
        /\ check[d] = "error"
        /\ pdf_chars[d] = Unparseable
        /\ pc[d] = "done"
        /\ result[d].success

\* ---------------------------------------------------------------------
\* C5: at every instant the number of descriptors whose OCR call is in flight
\* is at most max_workers, also when there are more descriptors than workers.
OcrInFlight == {d \in Docs : pc[d] = "ocr"}

C5_InFlightBounded ==
    /\ Cardinality(OcrInFlight) <= max_workers
    /\ Cardinality(Running) <= max_workers

\* More descriptors than workers, as many OCR calls in flight as there are
\* workers, and a descriptor waiting in the queue.
C5_Witness ==
    /\ total > max_workers
    /\ Cardinality(OcrInFlight) = max_workers
    /\ work_queue # << >>

\* ---------------------------------------------------------------------
\* C6: a descriptor for which the check answered "searchable" never gets an
\* OCR call or a store call in the run, and its outcome is Skipped.
C6_SkipMakesNoCall ==
    \A d \in Docs :
        check[d] = "true" =>
            /\ ocr_calls[d] = 0
            /\ store_calls[d] = 0
            /\ pc[d] = "done"
            /\ result[d] = SkippedOutcome(d)
            /\ Classify(result[d]) = "skip"

\* A run ended with the summary after the check answered "searchable" for
\* one of its descriptors.
C6_Witness ==
    /\ driver = "done"
    /\ \E d \in Docs : check[d] = "true" /\ Printed(d) = 1

\* ---------------------------------------------------------------------
\* What is_searchable_pdf does with the bytes of d when no other worker runs:
\* it reads back the bytes it wrote.
SoloCheck(d) ==
    IF pdf_chars[d] = Unparseable THEN "error"
    ELSE IF pdf_chars[d] >= MinChars THEN "true"
    ELSE "false"

\* C7 (as claimed): with a concurrency of 2 or more, under every interleaving,
\* the check of a descriptor does what it does when run alone on that
\* descriptor's bytes: the same answer, and no failure another worker caused.
C7_Original ==
    max_workers >= 2 =>
        \A d \in Docs : check[d] # "pending" => check[d] = SoloCheck(d)

\* ---------------------------------------------------------------------
\* What process_single_pdf returns for d against the deterministic stub when
\* the tasks run one after the other (max_workers = 1).
SequentialOutcome(d) ==
    LET f == CHOOSE a \in stub[d].fetch : TRUE
        o == CHOOSE a \in stub[d].ocr : TRUE
        t == CHOOSE a \in stub[d].store : TRUE
    IN  IF f # OK THEN FailedOutcome(d, f)
        ELSE IF script = "gdrive" /\ SoloCheck(d) = "true" THEN SkippedOutcome(d)
        ELSE IF o # OK THEN FailedOutcome(d, o)
        ELSE IF t # OK THEN FailedOutcome(d, t)
        ELSE SuccessOutcome(d)

\* An outcome without the name of its descriptor.
Anonymous(o) == << o.success, o.message >>

\* The multiset of the outcomes out(d), d a descriptor of the run.
OutcomeBag(out(_)) ==
    [x \in {Anonymous(out(d)) : d \in Docs} |->
        Cardinality({d \in Docs : Anonymous(out(d)) = x})]

ActualOutcome(d) == result[d]

\* C8 (as claimed): against deterministic stubs, the multiset of outcomes of a
\* completed run with any max_workers equals the multiset the sequential run
\* of the same list produces. Checked under SpecStub.
C8_Original ==
    driver = "done" =>
        OutcomeBag(ActualOutcome) = OutcomeBag(SequentialOutcome)

\* ---------------------------------------------------------------------
\* C9 (as claimed), checked under SpecCancel: once the caller has interrupted the run no descriptor
\* that had not started is dispatched to a worker any more, and the counters
\* captured by then add up to no less than the outcomes the driver had
\* consumed and to no more than the number of descriptors.
C9_Original ==
    [][/\ interrupted =>
             \A d \in Docs : pc[d] = "queued" => pc'[d] = "queued"
       /\ interrupted' =>
             /\ Sum' >= Len(progress')
             /\ Sum' <= total]_vars

\* ---------------------------------------------------------------------
\* C10: given a non-empty list, if every call returns or raises, the run ends
\* and prints the final summary, whatever the outcomes. Checked under
\* LiveSpec.
C10_SummaryPrinted == <>(summary_printed /\ driver = "done")

\* The summary was printed after every one of two or more documents failed.
C10_Witness ==
    /\ summary_printed
    /\ total >= 2
    /\ error_count = total
    /\ \A d \in Docs : ~result[d].success

\* ------------------------------------------------------------------- C11
\* The process or the batch function has come to its end.
Ended == driver \in {"done", "exited"}

\* C11, as stated: an empty list of PDFs causes no work (no task, no OCR call,
\* no store call) and the run ends with a summary whose success, skip and
\* error counts are zero and whose estimated cost is zero. Checked under
\* SpecMain, with the key set.
C11_Original ==
    (total = 0 /\ script \in Scripts /\ api_key /\ Ended) =>
        /\ work_queue = << >>
        /\ summary_printed
        /\ success_count = 0 /\ skip_count = 0 /\ error_count = 0
        /\ cost = << 0, 0 >>

\* C11, amended: an empty list of PDFs causes no work -- no task is ever
\* queued, no progress line printed, the three counts stay zero -- and no
\* cost line is ever printed. The scripts end without a summary ("No PDF
\* files found"); only batch_process called with an empty list prints the
\* summary, with three zeros.
C11_EmptyRun ==
    (total = 0 /\ script \in Scripts /\ api_key) =>
        /\ work_queue = << >>
        /\ progress = << >>
        /\ success_count = 0 /\ skip_count = 0 /\ error_count = 0
        /\ cost = NoCost
        /\ driver = "exited" => ~summary_printed
        /\ driver = "done" => summary_printed /\ script = "gdrive"

\* batch_process was called with an empty list and has printed its summary.
C11_Witness ==
    /\ total = 0
    /\ script = "gdrive"
    /\ driver = "done"
    /\ summary_printed
    /\ cost = NoCost

\* ------------------------------------------------------------------- C12
\* C12, as stated: a script started on no PDF at all -- batch_ocr.py on a
\* directory without PDFs, gdrive_batch_ocr.py on a Drive folder without
\* PDFs, check_pdf_searchable.py on arguments without PDFs -- ends with an
\* exit status other than zero. Checked under SpecMain.
C12_Original ==
    (total = 0 /\ driver = "exited") => exit_status > 0

\* ------------------------------------------------------------------- C13
\* C13, as stated: a batch script started without MISTRAL_API_KEY never gets
\* to the executor -- no task is queued or run, no OCR or store call is made
\* -- and when it ends, it ends with a failure status and without having
\* created the output directory or Drive folder. Checked under SpecMain.
C13_Original ==
    (script \in Scripts /\ total > 0 /\ ~api_key) =>
        /\ driver \in {"main", "exited"}
        /\ work_queue = << >>
        /\ \A d \in Docs : pc[d] = "new" /\ ocr_calls[d] = 0 /\ store_calls[d] = 0
        /\ driver = "exited" => exit_status = 1 /\ ~output_created

\* ------------------------------------------------------------------- C14
\* The progress line of d is printed in this step.
PrintsLine(d) == progress' = Append(progress, d)

\* The task of d finishes in this step.
Finishes(d) == pc[d] # "done" /\ pc'[d] = "done"

\* The position of d in the sequence q, 0 if it is not there.
Position(q, d) ==
    IF \E i \in 1..Len(q) : q[i] = d
    THEN CHOOSE i \in 1..Len(q) : q[i] = d
    ELSE 0

\* C14: progress lines are printed in completion order. A line is printed
\* only for a task that has finished; a task that finishes while the driver
\* waits in as_completed joins the waiting ones behind all that finished
\* before it; and of the tasks that finished during the wait the driver
\* always prints the one that finished first, so that A's line precedes B's
\* whenever A finished during the wait and before B, wherever A and B stand
\* in the input list. Checked under Spec.
C14_CompletionOrder ==
    /\ [](\A i \in 1..Len(progress) : pc[progress[i]] = "done")
    /\ [](\A i, j \in 1..Len(finished_futures) :
              /\ Printed(finished_futures[i]) = 0
              /\ i # j => finished_futures[i] # finished_futures[j])
    /\ [][\A d \in Docs :
            /\ (Finishes(d) /\ driver = "loop") =>
                   finished_futures' = Append(finished_futures, d)
            /\ (PrintsLine(d) /\ Position(finished_futures, d) > 0) =>
                   /\ Position(finished_futures, d) = 1
                   /\ finished_futures' = Tail(finished_futures)]_vars

\* Both lines are out, the line of the second PDF of the list first.
C14_Witness ==
    /\ total = 2
    /\ progress = << 2, 1 >>
    /\ finished_futures = << >>
    /\ driver \in {"summary", "done"}

\* ------------------------------------------------------------------- C15
\* A step of the task of d, made by the worker thread that runs it.
WorkerStep(d) ==
    \/ Take(d)
    \/ CheckWrite(d)
    \/ CheckRead(d)
    \/ CheckUnlink(d)
    \/ OcrReturn(d)
    \/ StoreReturn(d)

\* C15, as stated: the three counters are the only mutable state of the
\* run that more than one thread touches, and they are touched by the driver
\* thread alone: a step of a worker changes nothing that the driver or
\* another task's code reads or writes (the executor's own queue and futures
\* apart), and a counter changes only in the driver's step that prints a
\* progress line, by exactly one. Checked under Spec.
C15_Original ==
    [][/\ (\E d \in Docs : WorkerStep(d)) =>
              UNCHANGED << success_count, skip_count, error_count, temp_file >>
       /\ ~(UNCHANGED << success_count, skip_count, error_count >>) =>
              (progress' # progress /\ OneCounterPlusOne)]_vars

\* ------------------------------------------------------------------- C16
\* The PDFs whose task returned success.
Successes == {d \in Docs : result[d].success}

C17_CheckOcrStore ==
    /\ [](\A d \in Docs :
            /\ ocr_calls[d] > 0 =>
                  (script = "gdrive" => check[d] \in {"false", "error"})
            /\ store_calls[d] > 0 => ocr_calls[d] = 1 /\ pc[d] \in {"store", "done"}
            /\ check[d] = "true" => ocr_calls[d] = 0 /\ store_calls[d] = 0
            /\ result[d].success => store_calls[d] = 1)
    /\ [][\A d \in Docs :
            /\ store_calls'[d] # store_calls[d] =>
                  /\ pc[d] = "ocr" /\ pc'[d] = "store"
                  /\ OK \in stub[d].ocr
                  /\ store_calls[d] = 0 /\ store_calls'[d] = 1
                  /\ stored'[d] = 0
            /\ (pc[d] = "ocr" /\ pc'[d] = "done") =>
                  ~result'[d].success /\ store_calls'[d] = 0
            /\ (~result[d].success /\ result'[d].success) =>
                  /\ pc[d] = "store"
                  /\ stored[d] + 1 = 1 + images[d]]_vars

\* A Drive task between its store operations: the markdown is stored, an
\* image is not yet, and no outcome is recorded.
C17_Witness ==
    \E d \in Docs :
        /\ script = "gdrive"
        /\ pc[d] = "store"
        /\ check[d] = "false"
        /\ ocr_calls[d] = 1
        /\ images[d] = MaxImages
        /\ stored[d] = 1
        /\ result[d] = None

\* ------------------------------------------------------------------- C18
\* The PDFs whose progress line is printed, that is, whose outcome is counted.
Counted == {progress[i] : i \in 1..Len(progress)}

\* C18, as stated: in the Drive driver skip_count counts the PDFs for which
\* is_searchable_pdf returned True and no others, and every PDF whose
\* download, OCR or store raised is counted in error_count, whatever the
\* text of the exception. Checked under Spec.
C18_Original ==
    script = "gdrive" =>
        /\ skip_count = Cardinality({d \in Counted : check[d] = "true"})
        /\ error_count =
              Cardinality({d \in Counted :
                              ~result[d].success /\ check[d] # "true"})

====
